---- MODULE Spec2Model ----
(***************************************************************************)
(* go-audiosprite: model of the command in src/main.go that has the        *)
(* -format flag (the second program of the file, lines 145-334): it        *)
(* decodes the input WAV files in order, resamples through ffmpeg the ones *)
(* whose sample rate differs from the first one's, concatenates the        *)
(* samples, writes the combined WAV, transcodes it when mp3 or ogg is      *)
(* asked for, and writes the JSON sprite map.                              *)
(*                                                                         *)
(* Strings are sequences of tokens: "/", ".", ",", " " stand for           *)
(* themselves and every other token is a run of characters that holds none *)
(* of them, so filepath.Base, filepath.Ext, strings.Split and              *)
(* strings.TrimSpace are computed as the library computes them.            *)
(* Seconds (float64 quotients of two integers) are fractions in lowest     *)
(* terms.                                                                  *)
(***************************************************************************)
EXTENDS Integers, Sequences, FiniteSets, TLC

\* Longest list of input files a run is given.
MaxClips == 3

VARIABLES
    inputs,         \* the expanded input list (main.go:185-195)
    loopList,       \* the -loops flag as given
    formatFlag,     \* the -format flag as given (already checked valid)
    outBuf,         \* the combined buffer, Nil before the first clip
    targetRate,     \* the first clip's sample rate
    currentSample,  \* frames appended so far
    spritemap,      \* key -> [Start, End, Loop]
    idx,            \* position of the range loop over inputs (1-based)
    buf,            \* the buffer decoded for inputs[idx], Nil when none
    tmpResampled,   \* the file ffmpegResample returned for inputs[idx]
    deferred,       \* files whose os.Remove is deferred to main's return
    pc,             \* where main is
    err,            \* which log.Fatalf ended the run, "none" if none did
    fs,             \* files the run created: name -> [state, by]
    manifest,       \* what was marshalled into the JSON file
    recorded,       \* history: per assembled clip, what was appended and recorded
    resampleCalls,  \* history: the ffmpegResample calls made
    convertCalls    \* history: the ffmpegConvert calls made

vars == <<inputs, loopList, formatFlag, outBuf, targetRate, currentSample,
          spritemap, idx, buf, tmpResampled, deferred, pc, err, fs, manifest,
          recorded, resampleCalls, convertCalls>>

Nil == [nil |-> TRUE]

-----------------------------------------------------------------------------
\* Strings and paths

RECURSIVE LastIndexOf(_, _, _)
\* The greatest k <= n with s[k] = t, 0 when there is none.
LastIndexOf(s, t, n) ==
    IF n = 0 THEN 0
    ELSE IF s[n] = t THEN n
    ELSE LastIndexOf(s, t, n - 1)

RECURSIVE StripTrailingSlashes(_)
StripTrailingSlashes(p) ==
    IF Len(p) > 0 /\ p[Len(p)] = "/"
    THEN StripTrailingSlashes(SubSeq(p, 1, Len(p) - 1))
    ELSE p

\* filepath.Base: the last element of the path.
Base(path) ==
    IF path = <<>> THEN <<".">>
    ELSE LET p == StripTrailingSlashes(path)
             b == SubSeq(p, LastIndexOf(p, "/", Len(p)) + 1, Len(p))
         IN  IF b = <<>> THEN <<"/">> ELSE b

\* filepath.Ext: the suffix from the last dot of the last element.
Ext(path) ==
    LET slash == LastIndexOf(path, "/", Len(path))
        dot   == LastIndexOf(path, ".", Len(path))
    IN  IF dot > slash THEN SubSeq(path, dot, Len(path)) ELSE <<>>

fileKey(path) ==
    LET base == Base(path)
        ext  == Ext(base)
    IN  SubSeq(base, 1, Len(base) - Len(ext))

RECURSIVE Split(_, _)
\* strings.Split(s, sep) for a one-token separator: always at least one piece.
Split(s, sep) ==
    IF \A k \in 1..Len(s) : s[k] # sep THEN <<s>>
    ELSE LET k == CHOOSE k \in 1..Len(s) :
                      s[k] = sep /\ \A j \in 1..(k - 1) : s[j] # sep
         IN  <<SubSeq(s, 1, k - 1)>> \o Split(SubSeq(s, k + 1, Len(s)), sep)

RECURSIVE TrimSpace(_)
TrimSpace(s) ==
    IF Len(s) > 0 /\ s[1] = " " THEN TrimSpace(Tail(s))
    ELSE IF Len(s) > 0 /\ s[Len(s)] = " " THEN TrimSpace(SubSeq(s, 1, Len(s) - 1))
    ELSE s

\* The loop set main builds from the -loops flag.
ParseLoops(list) ==
    IF list = <<>> THEN {}
    ELSE LET names == Split(list, ",")
         IN  {TrimSpace(names[k]) : k \in 1..Len(names)}

loops == ParseLoops(loopList)

\* strings.ToLower on the format names the validity check lets through.
ToLower(f) ==
    CASE f = "WAV" -> "wav"
      [] f = "MP3" -> "mp3"
      [] f = "OGG" -> "ogg"
      [] OTHER -> f

outBase == <<"sprite">>
tmpWav == outBase \o <<".", "wav">>
outAudioName == outBase \o <<".", ToLower(formatFlag)>>
outJson == outBase \o <<".", "json">>

-----------------------------------------------------------------------------
\* Seconds

RECURSIVE GCD(_, _)
GCD(a, b) == IF b = 0 THEN a ELSE GCD(b, a % b)

\* float64(n) / float64(rate), as the fraction in lowest terms.
Seconds(n, rate) ==
    LET g == GCD(n, rate)
    IN  [num |-> n \div g, den |-> rate \div g]

-----------------------------------------------------------------------------
\* The files on disk and the flags a run may be given

InputPaths ==
    { <<"a", ".", "wav">>,
      <<"d", "/", "a", ".", "wave">>,
      <<"b", ".", "wav">>,
      <<"c", ".", "wav">>,
      <<"e", ".", "wav">>,
      <<"f", ".", "wav">> }

PathId(path) ==
    CASE path = <<"a", ".", "wav">> -> 1
      [] path = <<"d", "/", "a", ".", "wave">> -> 2
      [] path = <<"b", ".", "wav">> -> 3
      [] path = <<"c", ".", "wav">> -> 4
      [] path = <<"e", ".", "wav">> -> 5
      [] path = <<"f", ".", "wav">> -> 6

\* A decoded buffer: the format of the file and its interleaved samples.
PCM(rate, chans, n, tag) ==
    [Format |-> [SampleRate |-> rate, NumChannels |-> chans],
     Data   |-> [k \in 1..n |-> tag + k]]

\* What each input file holds: a and d/a share a key, b has another rate,
\* c is stereo, e is stereo at another rate and ends in half a frame, f is
\* one more mono file at a's rate.
Wav(path) ==
    CASE PathId(path) = 1 -> PCM(44100, 1, 2, 10)
      [] PathId(path) = 2 -> PCM(44100, 1, 1, 20)
      [] PathId(path) = 3 -> PCM(22050, 1, 2, 30)
      [] PathId(path) = 4 -> PCM(44100, 2, 4, 40)
      [] PathId(path) = 5 -> PCM(22050, 2, 3, 50)
      [] PathId(path) = 6 -> PCM(44100, 1, 3, 60)

\* What ffmpeg -ar writes for an input: the same channels at the new rate,
\* whole frames only, their number scaled by the ratio of the rates.
ResampledWav(path, rate) ==
    LET w      == Wav(path)
        frames == Len(w.Data) \div w.Format.NumChannels
        scaled == (frames * rate) \div w.Format.SampleRate
    IN  PCM(rate, w.Format.NumChannels, scaled * w.Format.NumChannels,
            100 + 10 * PathId(path))

\* fmt.Sprint of a sample rate.
RateStr(rate) ==
    CASE rate = 44100 -> "44100"
      [] rate = 22050 -> "22050"

LoopLists ==
    { <<>>,
      <<"a", ".", "wav">>,
      <<"a">>,
      <<"b", ".", "wav", ",", " ", "c", ".", "wav", " ">> }

Formats == {"wav", "mp3", "OGG"}

RECURSIVE SeqsUpTo(_, _)
\* The sequences over S of length 1..n.
SeqsUpTo(S, n) ==
    IF n = 0 THEN {}
    ELSE LET shorter == SeqsUpTo(S, n - 1)
         IN  {<<x>> : x \in S} \cup shorter
             \cup {Append(s, x) : s \in shorter, x \in S}

-----------------------------------------------------------------------------
\* Files

Put(f, name, v) ==
    [n \in DOMAIN f \cup {name} |-> IF n = name THEN v ELSE f[n]]

Remove(f, name) ==
    [n \in DOMAIN f \ {name} |-> f[n]]

\* os.Remove of every deferred file, as main returns.
RunDeferred(f, names) ==
    [n \in DOMAIN f \ {names[k] : k \in 1..Len(names)} |-> f[n]]

File(state, by) == [state |-> state, by |-> by]

-----------------------------------------------------------------------------
\* The run

Init ==
    /\ inputs \in SeqsUpTo(InputPaths, MaxClips)
    /\ loopList \in LoopLists
    /\ formatFlag \in Formats
    /\ outBuf = Nil
    /\ targetRate = 0
    /\ currentSample = 0
    /\ spritemap = <<>>
    /\ idx = 1
    /\ buf = Nil
    /\ tmpResampled = <<>>
    /\ deferred = <<>>
    /\ pc = "decode"
    /\ err = "none"
    /\ fs = <<>>
    /\ manifest = Nil
    /\ recorded = <<>>
    /\ resampleCalls = <<>>
    /\ convertCalls = <<>>

\* log.Fatalf: the message is printed and os.Exit(1) ends the process, no
\* deferred call runs.
Fatalf(step) ==
    /\ pc' = "fatal"
    /\ err' = step

\* Mutant of LoopOf: the loop set is looked up by the key of the entry.
LoopOfKey(infile) == fileKey(infile) \in loops

\* loops[filepath.Base(infile)] (line 246); a missing key reads as false.
LoopOf(infile) == Base(infile) \in loops

\* Mutant of Entry: end is computed before the cursor has advanced.
EntryEndBeforeAdvance(before, after, rate, infile) ==
    [Start |-> Seconds(before, rate),
     End   |-> Seconds(before, rate),
     Loop  |-> LoopOf(infile)]

\* The entry of the sprite map main builds for infile (lines 237-247): the
\* cursor before and after the clip's frames were counted, over the rate.
Entry(before, after, rate, infile) ==
    [Start |-> Seconds(before, rate),
     End   |-> Seconds(after, rate),
     Loop  |-> LoopOf(infile)]

\* The frames the cursor advances by for a decoded buffer.
FrameCount(b) == Len(b.Data) \div b.Format.NumChannels

\* Lines 237-248: the clip in b, decoded from file src, is appended to the
\* buffer ob and recorded; the range loop moves on.
Assemble(b, src, ob, rate) ==
    LET infile == inputs[idx]
        after  == currentSample + FrameCount(b)
        entry  == Entry(currentSample, after, rate, infile)
    IN  /\ outBuf' = [ob EXCEPT !.Data = @ \o b.Data]
        /\ currentSample' = after
        /\ spritemap' = Put(spritemap, fileKey(infile), entry)
        /\ recorded' = Append(recorded,
                          [infile |-> infile, key |-> fileKey(infile),
                           src |-> src, clip |-> b, entry |-> entry])
        /\ idx' = idx + 1
        /\ buf' = Nil
        /\ pc' = IF idx + 1 > Len(inputs) THEN "writeWAV" ELSE "decode"

\* Line 214-216: decodeWAV(infile) fails.
DecodeFail ==
    /\ pc = "decode"
    /\ Fatalf("decode")
    /\ UNCHANGED <<inputs, loopList, formatFlag, outBuf, targetRate,
                   currentSample, spritemap, idx, buf, tmpResampled, deferred,
                   fs, manifest, recorded, resampleCalls, convertCalls>>

\* Lines 214-224, 237-248: the first clip fixes the rate and the format.
DecodeFirst ==
    /\ pc = "decode"
    /\ outBuf = Nil
    /\ LET b == Wav(inputs[idx])
       IN  /\ targetRate' = b.Format.SampleRate
           /\ Assemble(b, inputs[idx],
                       [Format |-> b.Format, Data |-> <<>>],
                       b.Format.SampleRate)
    /\ UNCHANGED <<inputs, loopList, formatFlag, tmpResampled, deferred, err,
                   fs, manifest, resampleCalls, convertCalls>>

\* Lines 214-225, 237-248: a later clip at the target rate.
DecodeSameRate ==
    /\ pc = "decode"
    /\ outBuf # Nil
    /\ LET b == Wav(inputs[idx])
       IN  /\ b.Format.SampleRate = targetRate
           /\ Assemble(b, inputs[idx], outBuf, targetRate)
    /\ UNCHANGED <<inputs, loopList, formatFlag, targetRate, tmpResampled,
                   deferred, err, fs, manifest, resampleCalls, convertCalls>>

\* Lines 214-225: a later clip at another rate goes to ffmpegResample.
DecodeOtherRate ==
    /\ pc = "decode"
    /\ outBuf # Nil
    /\ LET b == Wav(inputs[idx])
       IN  /\ b.Format.SampleRate # targetRate
           /\ buf' = b
    /\ pc' = "resample"
    /\ UNCHANGED <<inputs, loopList, formatFlag, outBuf, targetRate,
                   currentSample, spritemap, idx, tmpResampled, deferred, err,
                   fs, manifest, recorded, resampleCalls, convertCalls>>

\* Mutant of ResampleRate: the clip's own rate is asked for.
ResampleOwnRate == buf.Format.SampleRate

\* The rate main asks ffmpegResample for (line 226).
ResampleRate == targetRate

\* ffmpegResample's output name (line 305).
ResampledName(input, rate) ==
    input \o <<"_resampled_", RateStr(rate), ".", "wav">>

ResampleCall ==
    [input |-> inputs[idx], rate |-> ResampleRate, clip |-> idx,
     assembled |-> Len(recorded)]

\* Lines 226-229, 308-310: ffmpeg fails.
ResampleFail ==
    /\ pc = "resample"
    /\ resampleCalls' = Append(resampleCalls, ResampleCall)
    /\ Fatalf("resample")
    /\ UNCHANGED <<inputs, loopList, formatFlag, outBuf, targetRate,
                   currentSample, spritemap, idx, buf, tmpResampled, deferred,
                   fs, manifest, recorded, convertCalls>>

\* Lines 226-230, 304-311: ffmpeg writes the resampled file, whose removal
\* main defers.
ResampleOk ==
    /\ pc = "resample"
    /\ LET tmp == ResampledName(inputs[idx], ResampleRate)
       IN  /\ fs' = Put(fs, tmp, File("complete", "ffmpeg"))
           /\ tmpResampled' = tmp
           /\ deferred' = Append(deferred, tmp)
    /\ resampleCalls' = Append(resampleCalls, ResampleCall)
    /\ pc' = "redecode"
    /\ UNCHANGED <<inputs, loopList, formatFlag, outBuf, targetRate,
                   currentSample, spritemap, idx, buf, err, manifest, recorded,
                   convertCalls>>

\* Lines 231-234: decodeWAV(tmpResampled) fails.
RedecodeFail ==
    /\ pc = "redecode"
    /\ Fatalf("redecode")
    /\ UNCHANGED <<inputs, loopList, formatFlag, outBuf, targetRate,
                   currentSample, spritemap, idx, buf, tmpResampled, deferred,
                   fs, manifest, recorded, resampleCalls, convertCalls>>

\* Lines 231, 237-248: the resampled file is decoded and assembled.
RedecodeOk ==
    /\ pc = "redecode"
    /\ LET call == resampleCalls[Len(resampleCalls)]
       IN  Assemble(ResampledWav(call.input, call.rate), tmpResampled,
                    outBuf, targetRate)
    /\ UNCHANGED <<inputs, loopList, formatFlag, targetRate, tmpResampled,
                   deferred, err, fs, manifest, resampleCalls, convertCalls>>

-----------------------------------------------------------------------------
\* After the loop: the combined WAV, the transcode, the JSON map

\* True when -format asks for a compressed file (line 256).
Compressed == ToLower(formatFlag) # "wav"

\* The header wav.NewEncoder is given (line 297) and the samples written.
Encoded ==
    [SampleRate |-> targetRate, NumChannels |-> outBuf.Format.NumChannels,
     NumSamples |-> Len(outBuf.Data)]

\* Lines 292-295: os.Create fails, no file appears.
WriteWAVCreateFail ==
    /\ pc = "writeWAV"
    /\ Fatalf("writeWAV")
    /\ UNCHANGED <<inputs, loopList, formatFlag, outBuf, targetRate,
                   currentSample, spritemap, idx, buf, tmpResampled, deferred,
                   fs, manifest, recorded, resampleCalls, convertCalls>>

\* Lines 297-300: enc.Write fails on the created file.
WriteWAVWriteFail ==
    /\ pc = "writeWAV"
    /\ fs' = Put(fs, tmpWav, File("partial", "encoder"))
    /\ Fatalf("writeWAV")
    /\ UNCHANGED <<inputs, loopList, formatFlag, outBuf, targetRate,
                   currentSample, spritemap, idx, buf, tmpResampled, deferred,
                   manifest, recorded, resampleCalls, convertCalls>>

\* Lines 251-256, 291-302: the combined WAV is written.
WriteWAVOk ==
    /\ pc = "writeWAV"
    /\ fs' = Put(fs, tmpWav, File("complete", "encoder"))
    /\ pc' = IF Compressed THEN "convert" ELSE "json"
    /\ UNCHANGED <<inputs, loopList, formatFlag, outBuf, targetRate,
                   currentSample, spritemap, idx, buf, tmpResampled, deferred,
                   err, manifest, recorded, resampleCalls, convertCalls>>

\* The ffmpegConvert call of line 257, with the state its input file is in.
ConvertCall ==
    [input |-> tmpWav, output |-> outAudioName, format |-> formatFlag,
     inputState |-> IF tmpWav \in DOMAIN fs THEN fs[tmpWav].state ELSE "none"]

\* Mutant of ConvertErrPc: the error is logged and main goes on.
ConvertErrIgnored == "json"

\* Where main goes when ffmpegConvert returns an error (lines 257-259).
ConvertErrPc == "fatal"

\* Lines 257-259, 323-326: ffmpeg fails; it may have begun its output file.
ConvertFail ==
    /\ pc = "convert"
    /\ convertCalls' = Append(convertCalls, ConvertCall)
    /\ \/ fs' = fs
       \/ fs' = Put(fs, outAudioName, File("partial", "ffmpeg"))
    /\ pc' = ConvertErrPc
    /\ err' = "convert"
    /\ UNCHANGED <<inputs, loopList, formatFlag, outBuf, targetRate,
                   currentSample, spritemap, idx, buf, tmpResampled, deferred,
                   manifest, recorded, resampleCalls>>

\* Mutant of AfterConvert: the combined WAV is kept.
AfterConvertKeep(f) == f

\* What line 260 leaves of the files once the transcode is done.
AfterConvert(f) == Remove(f, tmpWav)

\* Lines 257-260: the transcode is written and the combined WAV removed.
ConvertOk ==
    /\ pc = "convert"
    /\ convertCalls' = Append(convertCalls, ConvertCall)
    /\ fs' = AfterConvert(Put(fs, outAudioName, File("complete", "ffmpeg")))
    /\ pc' = "json"
    /\ UNCHANGED <<inputs, loopList, formatFlag, outBuf, targetRate,
                   currentSample, spritemap, idx, buf, tmpResampled, deferred,
                   err, manifest, recorded, resampleCalls>>

\* outAudio as lines 255-263 leave it.
outAudio == IF Compressed THEN outAudioName ELSE tmpWav

\* The value marshalled into the JSON file (lines 266-269).
Sprite == [Resources |-> <<outAudio>>, Spritemap |-> spritemap]

\* Lines 271-273: ioutil.WriteFile fails; it may have created the file.
WriteJSONFail ==
    /\ pc = "json"
    /\ \/ fs' = fs
       \/ fs' = Put(fs, outJson, File("partial", "json"))
    /\ Fatalf("json")
    /\ UNCHANGED <<inputs, loopList, formatFlag, outBuf, targetRate,
                   currentSample, spritemap, idx, buf, tmpResampled, deferred,
                   manifest, recorded, resampleCalls, convertCalls>>

\* Lines 266-276: the JSON file is written and main returns, which runs the
\* deferred removals.
WriteJSONOk ==
    /\ pc = "json"
    /\ manifest' = Sprite
    /\ fs' = RunDeferred(Put(fs, outJson, File("complete", "json")), deferred)
    /\ deferred' = <<>>
    /\ pc' = "done"
    /\ UNCHANGED <<inputs, loopList, formatFlag, outBuf, targetRate,
                   currentSample, spritemap, idx, buf, tmpResampled, err,
                   recorded, resampleCalls, convertCalls>>

Next ==
    \/ DecodeFail
    \/ DecodeFirst
    \/ DecodeSameRate
    \/ DecodeOtherRate
    \/ ResampleFail
    \/ ResampleOk
    \/ RedecodeFail
    \/ RedecodeOk
    \/ WriteWAVCreateFail
    \/ WriteWAVWriteFail
    \/ WriteWAVOk
    \/ ConvertFail
    \/ ConvertOk
    \/ WriteJSONFail
    \/ WriteJSONOk

Spec == Init /\ [][Next]_vars

-----------------------------------------------------------------------------
\* Properties

Exists(name) == name \in DOMAIN fs
Complete(name) == Exists(name) /\ fs[name].state = "complete"
Assembled == Len(recorded)
AllAssembled == Assembled = Len(inputs)
Resampled(j) == recorded[j].src # recorded[j].infile
firstRate == Wav(inputs[1]).Format.SampleRate
NoOutputFile == ~Exists(tmpWav) /\ ~Exists(outAudioName) /\ ~Exists(outJson)

RECURSIVE Concat(_, _)
\* The samples of the first n assembled clips, one after the other.
Concat(r, n) == IF n = 0 THEN <<>> ELSE Concat(r, n - 1) \o r[n].clip.Data

\* The last assembled clip recorded under key k.
LastWithKey(k) ==
    CHOOSE j \in 1..Assembled :
        /\ recorded[j].key = k
        /\ \A m \in (j + 1)..Assembled : recorded[m].key # k

\* The samples of the output buffer an entry delimits: the interleaved
\* indices [Start * R * C, End * R * C), as far as the buffer goes.
Delimited(e) ==
    LET R == targetRate
        C == outBuf.Format.NumChannels
        from == (e.Start.num * R * C) \div e.Start.den
        to   == (e.End.num * R * C) \div e.End.den
    IN  SubSeq(outBuf.Data, from + 1,
               IF to > Len(outBuf.Data) THEN Len(outBuf.Data) ELSE to)

\* C1: the entries are contiguous. For every two clips assembled one after
\* the other, the end recorded for the first equals the start recorded for
\* the second, resampled or not.
C1_Contiguous ==
    \A j \in 1..(Assembled - 1) :
        recorded[j].entry.End = recorded[j + 1].entry.Start

\* A finished run of at least two clips, one of them resampled, in which a
\* clip that is not the last one has frames.
C1_Witness ==
    /\ pc = "done"
    /\ Assembled >= 2
    /\ \E j \in 1..Assembled : Resampled(j)
    /\ recorded[1].entry.End.num > 0
    /\ recorded[Assembled].entry.Start # recorded[Assembled].entry.End

\* C2: once every input is assembled, the entry under each clip's key
\* delimits exactly that clip's samples in the output buffer, and the buffer
\* is the clips' samples in input order.
C2_EntryDelimitsClip ==
    AllAssembled =>
        /\ \A j \in 1..Assembled :
               /\ recorded[j].infile = inputs[j]
               /\ Delimited(spritemap[recorded[j].key]) = recorded[j].clip.Data
        /\ outBuf.Data = Concat(recorded, Assembled)

\* C3: once every input is assembled, the end recorded for the last clip is
\* the frame count of the output (its samples over the channel count it is
\* encoded with) over the reference rate.
C3_LastEndIsTotal ==
    AllAssembled =>
        recorded[Assembled].entry.End =
            Seconds(Encoded.NumSamples \div Encoded.NumChannels, Encoded.SampleRate)

\* C4: two distinct inputs with the same key are never both assembled (the
\* run fails at the second one).
C4_DuplicateKeyRejected ==
    \A j, k \in 1..Assembled :
        (j < k /\ recorded[j].infile # recorded[k].infile)
            => recorded[j].key # recorded[k].key

\* C5: when the run has ended, completed or failed, no file that
\* ffmpegResample created for it exists.
C5_TempFilesRemoved ==
    pc \in {"done", "fatal"} =>
        \A c \in 1..Len(resampleCalls) :
            ~Exists(ResampledName(resampleCalls[c].input, resampleCalls[c].rate))

\* C6: a clip after the first whose rate differs from the first clip's is
\* assembled only from a resample requested with the first clip's rate,
\* the request being made before the clip is appended or recorded; when the
\* resample fails the run fails and neither audio nor manifest is written.
C6_ResampleToFirstRate ==
    /\ \A c \in 1..Len(resampleCalls) :
           LET call == resampleCalls[c]
           IN  /\ call.rate = firstRate
               /\ call.clip > 1
               /\ call.input = inputs[call.clip]
               /\ Wav(call.input).Format.SampleRate # firstRate
               /\ call.assembled = call.clip - 1
    /\ \A j \in 2..Assembled :
           Wav(recorded[j].infile).Format.SampleRate # firstRate =>
               /\ Resampled(j)
               /\ recorded[j].clip.Format.SampleRate = firstRate
               /\ \E c \in 1..Len(resampleCalls) : resampleCalls[c].clip = j
    /\ pc = "resample" => Assembled = idx - 1
    /\ err = "resample" =>
           /\ pc = "fatal"
           /\ Assembled = idx - 1
           /\ NoOutputFile
           /\ manifest = Nil

\* A run ended by a failed resample of its third clip, the second one
\* having been resampled.
C6_Witness ==
    /\ err = "resample"
    /\ idx = 3
    /\ Resampled(2)

\* C7: no clip whose channel count differs from the reference format's is
\* assembled.
C7_ChannelMismatchRejected ==
    \A j \in 1..Assembled :
        recorded[j].clip.Format.NumChannels = outBuf.Format.NumChannels

\* C8 as stated: the loop flag of a clip's entry is true exactly when the
\* clip's key is in the loop set.
C8_LoopByKey ==
    \A j \in 1..Assembled :
        spritemap[recorded[j].key].Loop = (recorded[j].key \in loops)

\* C8 amended: the loop flag recorded for a clip is true exactly when the
\* base name of its file, extension included, is in the loop set, and the
\* entry under a key carries the flag of the last clip recorded under it.
C8_LoopByBaseName ==
    /\ \A j \in 1..Assembled :
           recorded[j].entry.Loop = (Base(recorded[j].infile) \in loops)
    /\ \A k \in DOMAIN spritemap :
           spritemap[k].Loop = (Base(recorded[LastWithKey(k)].infile) \in loops)

\* A finished run whose map has a looping and a non-looping entry, the
\* looping one under a key that is not itself in the loop set.
C8_Witness ==
    /\ pc = "done"
    /\ \E k \in DOMAIN manifest.Spritemap :
           manifest.Spritemap[k].Loop /\ k \notin loops
    /\ \E k \in DOMAIN manifest.Spritemap : ~manifest.Spritemap[k].Loop

\* Fail-fast: the step that failed is the last one that ran, and the
\* manifest is written only once every input is assembled and the final
\* audio file is written.
FailFast ==
    /\ err # "none" => pc = "fatal" /\ manifest = Nil
    /\ pc = "fatal" => err # "none"
    /\ err \in {"decode", "resample", "redecode"} =>
           /\ idx <= Len(inputs)
           /\ Assembled = idx - 1
           /\ NoOutputFile
           /\ convertCalls = <<>>
    /\ err = "writeWAV" =>
           /\ convertCalls = <<>>
           /\ ~Exists(outJson)
           /\ Compressed => ~Exists(outAudioName)
    /\ err = "convert" => ~Exists(outJson)
    /\ Exists(outJson) => AllAssembled /\ Complete(outAudio)
    /\ manifest # Nil =>
           /\ err = "none"
           /\ AllAssembled
           /\ Complete(outAudio)
           /\ Complete(outJson)

====
